---- MODULE Spec2Model ----
(***************************************************************************)
(* Model of the Agon Light emulator debugger console (src/src/lib.rs) and  *)
(* of the command parser (src/src/parser.rs).                              *)
(*                                                                         *)
(* Two threads of the console are modelled statement by statement at       *)
(* every access to shared state: the Session Loop of start() and the       *)
(* Ctrl-C handler closure.  The Emulator Core at the other end of the two  *)
(* mpsc channels is the environment.                                       *)
(*                                                                         *)
(* A Rust string is a sequence of one-character strings.  A u32 is a pair  *)
(* of 16-bit limbs [hi, lo], so that every 32-bit value and its overflow   *)
(* are represented exactly.                                                *)
(*                                                                         *)
(* Specifications:                                                         *)
(*   Spec          the console with a core that may answer anything, send  *)
(*                 a notification at any time, and go away                 *)
(*   SpecCore      the console with the orderly core: commands answered    *)
(*                 in order, once each; halted by Pause or a breakpoint    *)
(*   SpecCoreFair  the orderly core, the operator typing `c` only, with a  *)
(*                 fair Session Loop and a fair core                       *)
(*   SpecFormat    the orderly core returning every kind of response       *)
(*   SpecPure      parse_cmd, handle_cmd's match and parse_number applied  *)
(*                 to one argument each                                    *)
(***************************************************************************)
EXTENDS Integers, Sequences, FiniteSets, TLC

\* ------------------------------------------------------------------------
\* u32 arithmetic
\* ------------------------------------------------------------------------

\* One limb holds 16 bits; a u32 is hi * Limb + lo.
Limb == 65536

U32(h, l) == [hi |-> h, lo |-> l]

Zero32 == U32(0, 0)

\* The literal 16 of unwrap_or(16).
Sixteen32 == U32(0, 16)

\* acc * radix + d, not yet reduced: the result overflows u32 iff hi >= Limb.
MulAdd(acc, radix, d) ==
    LET l == acc.lo * radix + d
    IN  [hi |-> acc.hi * radix + (l \div Limb), lo |-> l % Limb]

\* start + 0x20, not yet reduced: the sum overflows u32 iff hi >= Limb.
Plus0x20(v) ==
    LET l == v.lo + 32
    IN  [hi |-> v.hi + (l \div Limb), lo |-> l % Limb]

Overflows(v) == v.hi >= Limb

\* The value a wrapping (release) build keeps.
Wrap32(v) == [hi |-> v.hi % Limb, lo |-> v.lo]

\* ------------------------------------------------------------------------
\* Strings and number parsing
\* ------------------------------------------------------------------------

LowerDigits == <<"0", "1", "2", "3", "4", "5", "6", "7", "8", "9",
                 "a", "b", "c", "d", "e", "f">>

UpperDigits == <<"0", "1", "2", "3", "4", "5", "6", "7", "8", "9",
                 "A", "B", "C", "D", "E", "F">>

\* char::to_digit(36) restricted to the hexadecimal digits; NoDigit otherwise.
NoDigit == 99

DigitVal(c) ==
    IF \E i \in 1..16 : LowerDigits[i] = c
    THEN (CHOOSE i \in 1..16 : LowerDigits[i] = c) - 1
    ELSE IF \E i \in 1..16 : UpperDigits[i] = c
         THEN (CHOOSE i \in 1..16 : UpperDigits[i] = c) - 1
         ELSE NoDigit

ParseOk(v) == [ok |-> TRUE, val |-> v]

ParseErr == [ok |-> FALSE, val |-> Zero32]

RECURSIVE Accumulate(_, _, _)
Accumulate(digits, radix, acc) ==
    IF digits = <<>> THEN ParseOk(acc)
    ELSE IF DigitVal(Head(digits)) >= radix THEN ParseErr
    ELSE LET n == MulAdd(acc, radix, DigitVal(Head(digits)))
         IN  IF Overflows(n) THEN ParseErr
             ELSE Accumulate(Tail(digits), radix, n)

\* u32::from_str_radix: empty, a lone sign, a non-digit or a value above
\* u32::MAX is an error; one leading "+" is accepted, "-" is not a digit.
FromStrRadix(s, radix) ==
    IF s = <<>> THEN ParseErr
    ELSE IF Len(s) = 1 /\ s[1] \in {"+", "-"} THEN ParseErr
    ELSE Accumulate(IF s[1] = "+" THEN Tail(s) ELSE s, radix, Zero32)

StartsWith(s, c) == s # <<>> /\ s[1] = c

EndsWith(s, c) == s # <<>> /\ s[Len(s)] = c

\* ParseNumber that knows `&` as the only hexadecimal prefix.
ParseNumberAmpersandOnly(s) ==
    IF StartsWith(s, "&")
    THEN FromStrRadix(Tail(s), 16)
    ELSE IF EndsWith(s, "h") \/ EndsWith(s, "H")
         THEN FromStrRadix(SubSeq(s, 1, Len(s) - 1), 16)
         ELSE FromStrRadix(s, 10)

\* lib.rs's parse_number.
ParseNumber(s) ==
    IF StartsWith(s, "&") \/ StartsWith(s, "$")
    THEN FromStrRadix(Tail(s), 16)
    ELSE IF EndsWith(s, "h") \/ EndsWith(s, "H")
         THEN FromStrRadix(SubSeq(s, 1, Len(s) - 1), 16)
         ELSE FromStrRadix(s, 10)

\* str::split_whitespace: the maximal runs of non-blank characters.
RECURSIVE SplitFrom(_, _, _)
SplitFrom(s, word, acc) ==
    IF s = <<>>
    THEN IF word = <<>> THEN acc ELSE Append(acc, word)
    ELSE IF Head(s) = " "
         THEN SplitFrom(Tail(s), <<>>, IF word = <<>> THEN acc ELSE Append(acc, word))
         ELSE SplitFrom(Tail(s), Append(word, Head(s)), acc)

SplitWhitespace(s) == SplitFrom(s, <<>>, <<>>)

\* iter.next().unwrap_or(""): the i-th word, or the empty string.
WordOr(words, i) == IF i <= Len(words) THEN words[i] ELSE <<>>

\* ------------------------------------------------------------------------
\* Command words
\* ------------------------------------------------------------------------

kw_help == <<"h", "e", "l", "p">>

kw_info == <<"i", "n", "f", "o">>

kw_breakpoints == <<"b", "r", "e", "a", "k", "p", "o", "i", "n", "t", "s">>

kw_delete == <<"d", "e", "l", "e", "t", "e">>

kw_break == <<"b", "r", "e", "a", "k">>

kw_exit == <<"e", "x", "i", "t">>

kw_n == <<"n">>

kw_next == <<"n", "e", "x", "t">>

kw_s == <<"s">>

kw_step == <<"s", "t", "e", "p">>

kw_registers == <<"r", "e", "g", "i", "s", "t", "e", "r", "s">>

kw_mem == <<"m", "e", "m">>

kw_memory == <<"m", "e", "m", "o", "r", "y">>

kw_dot == <<".">>

kw_state == <<"s", "t", "a", "t", "e">>

kw_dis16 == <<"d", "i", "s", "1", "6">>

kw_dis24 == <<"d", "i", "s", "2", "4">>

kw_dis == <<"d", "i", "s">>

kw_disassemble == <<"d", "i", "s", "a", "s", "s", "e", "m", "b", "l", "e">>

kw_c == <<"c">>

kw_continue == <<"c", "o", "n", "t", "i", "n", "u", "e">>

\* ------------------------------------------------------------------------
\* handle_cmd: the dispatch on the words of a line (lib.rs)
\* ------------------------------------------------------------------------

NoCmd == [op |-> "None"]

\* What handle_cmd does with a line before wait_response is tested:
\*   act = "none"      nothing is sent, wait_response is false
\*   act = "exit"      std::process::exit(0)
\*   act = "continue"  in_debugger.store(false), then tx.send(Continue)
\*   act = "send"      tx.send(cmd)
\* ovf says that start + 0x20 exceeded u32::MAX while the line was parsed.
NoSend == [act |-> "none", cmd |-> NoCmd, ovf |-> FALSE]

SendCmd(c) == [act |-> "send", cmd |-> c, ovf |-> FALSE]

\* The adl argument of the disassemble family.
AdlOf(mode) ==
    IF mode = kw_dis16 THEN "SomeFalse"
    ELSE IF mode = kw_dis24 THEN "SomeTrue"
    ELSE "None"

\* The arm `mode @ ("dis16" | "dis24" | "dis" | "disassemble")`.  The default
\* start + 0x20 is an argument of unwrap_or, so it is computed (and may
\* overflow) whether or not an end is given.
DisassembleArm(words) ==
    LET start == ParseNumber(WordOr(words, 2))
        end   == ParseNumber(WordOr(words, 3))
        dflt  == Plus0x20(start.val)
    IN  IF start.ok
        THEN [act |-> "send",
              cmd |-> [op |-> "Disassemble", adl |-> AdlOf(words[1]),
                       start |-> start.val,
                       end |-> IF end.ok THEN end.val ELSE Wrap32(dflt)],
              ovf |-> Overflows(dflt)]
        ELSE SendCmd([op |-> "DisassemblePc", adl |-> AdlOf(words[1])])

MemoryArm(words) ==
    LET start == ParseNumber(WordOr(words, 2))
        len   == ParseNumber(WordOr(words, 3))
    IN  IF start.ok
        THEN SendCmd([op |-> "GetMemory", start |-> start.val,
                      len |-> IF len.ok THEN len.val ELSE Sixteen32])
        ELSE NoSend

\* UnknownArm merged into the arm of "." | "state".
UnknownArmAsState(words) == SendCmd([op |-> "GetState"])

\* The arm `_`: "Unknown command", wait_response is false.
UnknownArm(words) == NoSend

HandleCmdDispatch(words) ==
    IF words = <<>> THEN NoSend
    ELSE LET cmd == words[1] IN
      CASE cmd = kw_help -> NoSend
        [] cmd = kw_info ->
             IF Len(words) >= 2 /\ words[2] = kw_breakpoints
             THEN SendCmd([op |-> "ListBreaks"])
             ELSE NoSend
        [] cmd = kw_delete ->
             IF ParseNumber(WordOr(words, 2)).ok
             THEN SendCmd([op |-> "DeleteBreak", addr |-> ParseNumber(WordOr(words, 2)).val])
             ELSE NoSend
        [] cmd = kw_break ->
             IF ParseNumber(WordOr(words, 2)).ok
             THEN SendCmd([op |-> "SetBreak", addr |-> ParseNumber(WordOr(words, 2)).val])
             ELSE NoSend
        [] cmd = kw_exit -> [act |-> "exit", cmd |-> NoCmd, ovf |-> FALSE]
        [] cmd \in {kw_s, kw_step} -> SendCmd([op |-> "Step"])
        [] cmd = kw_registers -> SendCmd([op |-> "GetRegisters"])
        [] cmd \in {kw_mem, kw_memory} -> MemoryArm(words)
        [] cmd \in {kw_dot, kw_state} -> SendCmd([op |-> "GetState"])
        [] cmd \in {kw_dis16, kw_dis24, kw_dis, kw_disassemble} -> DisassembleArm(words)
        [] cmd \in {kw_c, kw_continue} ->
             [act |-> "continue", cmd |-> [op |-> "Continue"], ovf |-> FALSE]
        [] OTHER -> UnknownArm(words)

\* handle_cmd(cmd: &str, ...) begins by splitting the line into words.
HandleCmdOf(line) == HandleCmdDispatch(SplitWhitespace(line))

\* ------------------------------------------------------------------------
\* parse_cmd and its parse_number (parser.rs)
\* ------------------------------------------------------------------------

\* parser.rs's own copy of parse_number.
ParserParseNumber(s) ==
    IF StartsWith(s, "&") \/ StartsWith(s, "$")
    THEN FromStrRadix(Tail(s), 16)
    ELSE IF EndsWith(s, "h") \/ EndsWith(s, "H")
         THEN FromStrRadix(SubSeq(s, 1, Len(s) - 1), 16)
         ELSE FromStrRadix(s, 10)

\* Option<Cmd>: kind is "None", "UiHelp", "UiExit" or "Core" (with its
\* DebugCmd); ovf as in handle_cmd's dispatch.
CmdNone == [kind |-> "None", cmd |-> NoCmd, ovf |-> FALSE]

CmdUi(k) == [kind |-> k, cmd |-> NoCmd, ovf |-> FALSE]

CmdCore(c) == [kind |-> "Core", cmd |-> c, ovf |-> FALSE]

\* The Trigger that `break` builds; its actions vector is empty.
BreakTrigger(addr) ==
    [address |-> addr, msg |-> "Cpu paused at breakpoint", once |-> FALSE,
     actions |-> <<>>]

ParserDisassembleArm(words) ==
    LET start == ParserParseNumber(WordOr(words, 2))
        end   == ParserParseNumber(WordOr(words, 3))
        dflt  == Plus0x20(start.val)
    IN  IF start.ok
        THEN [kind |-> "Core",
              cmd |-> [op |-> "Disassemble", adl |-> AdlOf(words[1]),
                       start |-> start.val,
                       end |-> IF end.ok THEN end.val ELSE Wrap32(dflt)],
              ovf |-> Overflows(dflt)]
        ELSE CmdCore([op |-> "DisassemblePc", adl |-> AdlOf(words[1])])

ParserMemoryArm(words) ==
    LET start == ParserParseNumber(WordOr(words, 2))
        len   == ParserParseNumber(WordOr(words, 3))
    IN  IF start.ok
        THEN CmdCore([op |-> "GetMemory", start |-> start.val,
                      len |-> IF len.ok THEN len.val ELSE Sixteen32])
        ELSE CmdNone

ParseCmd(tokens) ==
    IF tokens = <<>> THEN CmdNone
    ELSE LET tok == tokens[1] IN
      CASE tok = kw_help -> CmdUi("UiHelp")
        [] tok = kw_info ->
             IF Len(tokens) >= 2 /\ tokens[2] = kw_breakpoints
             THEN CmdCore([op |-> "ListTriggers"])
             ELSE CmdNone
        [] tok = kw_delete ->
             IF ParserParseNumber(WordOr(tokens, 2)).ok
             THEN CmdCore([op |-> "DeleteTrigger",
                           addr |-> ParserParseNumber(WordOr(tokens, 2)).val])
             ELSE CmdNone
        [] tok = kw_break ->
             IF ParserParseNumber(WordOr(tokens, 2)).ok
             THEN CmdCore([op |-> "AddTrigger",
                           trigger |-> BreakTrigger(ParserParseNumber(WordOr(tokens, 2)).val)])
             ELSE CmdNone
        [] tok = kw_exit -> CmdUi("UiExit")
        [] tok \in {kw_n, kw_next} -> CmdCore([op |-> "StepOver"])
        [] tok \in {kw_s, kw_step} -> CmdCore([op |-> "Step"])
        [] tok = kw_registers -> CmdCore([op |-> "GetRegisters"])
        [] tok \in {kw_mem, kw_memory} -> ParserMemoryArm(tokens)
        [] tok \in {kw_dot, kw_state} -> CmdCore([op |-> "GetState"])
        [] tok \in {kw_dis16, kw_dis24, kw_dis, kw_disassemble} ->
             ParserDisassembleArm(tokens)
        [] tok \in {kw_c, kw_continue} -> CmdCore([op |-> "Continue"])
        [] OTHER -> CmdNone

\* ------------------------------------------------------------------------
\* Number formatting: the {:x} and {} of the console's println! calls
\* ------------------------------------------------------------------------

\* format!("{:x}", n): lowercase hexadecimal, no leading zeros, "0" for zero.
RECURSIVE FormatHex(_)
FormatHex(n) ==
    IF n < 16 THEN <<LowerDigits[n + 1]>>
    ELSE Append(FormatHex(n \div 16), LowerDigits[(n % 16) + 1])

\* format!("{}", n): decimal.
RECURSIVE FormatDec(_)
FormatDec(n) ==
    IF n < 10 THEN <<LowerDigits[n + 1]>>
    ELSE Append(FormatDec(n \div 10), LowerDigits[(n % 10) + 1])

\* The u32 with the value of the integer n (n below 2^31).
ToU32(n) == U32(n \div Limb, n % Limb)

\* ------------------------------------------------------------------------
\* Bounds and inputs of the model
\* ------------------------------------------------------------------------

\* Most commands waiting in the outbound channel (the channel is unbounded).
MaxTx == 2

\* Most responses waiting in the inbound channel (the channel is unbounded).
MaxRx == 2

\* "a b c": the words joined by single blanks.
RECURSIVE Join(_)
Join(words) ==
    IF words = <<>> THEN <<>>
    ELSE IF Len(words) = 1 THEN words[1]
    ELSE words[1] \o <<" ">> \o Join(Tail(words))

EmptyLine == <<>>

\* The lines the operator types at the prompt.
ScriptLines ==
    { EmptyLine,
      Join(<<kw_s>>),
      Join(<<kw_c>>),
      Join(<<kw_mem, <<"&", "1", "0">> >>),
      Join(<<kw_mem, <<"1">>, <<"z", "z">> >>),
      Join(<<kw_help>>),
      Join(<<kw_n>>),
      Join(<<kw_exit>>) }

\* ------------------------------------------------------------------------
\* State
\* ------------------------------------------------------------------------

VARIABLES
    in_debugger,  \* the shared AtomicBool (PauseState)
    last_cmd,     \* start(): Option<String>
    pc,           \* where the Session Loop thread is
    cur,          \* handle_cmd's argument cmd while a call is in progress
    path,         \* the call site of the handle_cmd call in progress
    hpc,          \* where the Ctrl-C handler thread is
    tx,           \* commands sent and not yet received by the Emulator Core
    rx,           \* responses sent by the core and not yet received
    core_up,      \* the core still holds its ends of both channels
    sent,         \* history: the command the handle_cmd call in progress sent
    typed,        \* history: what the last line typed at the prompt sent
    hflip,        \* history: the handler firing in progress found the console Running
    seen,         \* history: the while condition read true during that firing
    script,       \* the lines the operator may type in this run
    eof,          \* history: readline has returned Err(Eof)
    core_halted,  \* the orderly core's CPU is halted (the free core does not say)
    rxre,         \* history: for each response of rx that has one, its origin
    pure,         \* the call of a pure function under study, and its result
    fires_left    \* the interrupts the operator will still raise, or AnyNumber

vars == <<in_debugger, last_cmd, pc, cur, path, hpc, tx, rx, core_up,
          sent, typed, hflip, seen, script, eof, core_halted, rxre, pure,
          fires_left>>

NoneLine == [some |-> FALSE, line |-> <<>>]

SomeLine(l) == [some |-> TRUE, line |-> l]

NoTyped == [some |-> FALSE, cmd |-> NoCmd]

\* An entry of tx: the DebugCmd, and (history) the thread that sent it.
Msg(c, who) == [cmd |-> c, src |-> who]

\* Every DebugResp variant of lib.rs, payloads left out (they are only printed).
RespKinds == {"Memory", "HitBreakpoint", "Breakpoints", "Pong",
              "Disassembly", "State", "Registers"}

\* fires_left when the operator may press Ctrl-C any number of times.
AnyNumber == -1

\* No pure function is under study.
NoCall == [fn |-> "none"]

\* The origins left once the oldest response is received.
PopRe(q) == IF q = <<>> THEN <<>> ELSE Tail(q)

\* const PAUSE_AT_START
PAUSE_AT_START == TRUE

\* start() before its loop: the state of the console and of the transport.
InitConsole ==
    /\ in_debugger = PAUSE_AT_START
    /\ last_cmd = NoneLine
    /\ pc = "loop_top"
    /\ cur = <<>>
    /\ path = "none"
    /\ hpc = "idle"
    /\ tx = <<>>
    /\ rx = <<>>
    /\ core_up = TRUE
    /\ sent = NoCmd
    /\ typed = NoTyped
    /\ hflip = FALSE
    /\ seen = FALSE
    /\ eof = FALSE
    /\ core_halted = PAUSE_AT_START
    /\ rxre = <<>>

Init ==
    /\ InitConsole
    /\ script = ScriptLines
    /\ pure = NoCall
    /\ fires_left = AnyNumber

\* ------------------------------------------------------------------------
\* handle_debug_resp
\* ------------------------------------------------------------------------

\* HandleDebugResp with Pong taken for a report that the core runs again.
HandleDebugRespPongResumes(resp, paused) ==
    IF resp = "HitBreakpoint" THEN TRUE
    ELSE IF resp = "Pong" THEN FALSE
    ELSE paused

\* The value of in_debugger after handle_debug_resp(resp): only HitBreakpoint
\* stores to it.
HandleDebugResp(resp, paused) ==
    IF resp = "HitBreakpoint" THEN TRUE ELSE paused

\* ------------------------------------------------------------------------
\* The Session Loop: start(), lines 272-310
\* ------------------------------------------------------------------------

\* WhileCond with the test of the flag lost: the loop prompts unconditionally.
WhileCondAlways == TRUE

\* while in_debugger.load(SeqCst)
WhileCond == in_debugger

LoopTop ==
    /\ pc = "loop_top"
    /\ pc' = IF WhileCond THEN "drain_in" ELSE "drain_out"
    /\ seen' = (seen \/ (WhileCond /\ hpc \in {"stored", "pause_sent"} /\ hflip))
    /\ UNCHANGED <<in_debugger, last_cmd, cur, path, hpc, tx, rx, core_up,
                   sent, typed, hflip>>
    /\ UNCHANGED <<script, eof, core_halted, rxre, pure, fires_left>>

\* DrainRx with an `if` for the loop: at most one response is handled.
DrainRxOnce(at, after) ==
    /\ pc = at
    /\ pc' = after
    /\ IF rx # <<>>
       THEN /\ in_debugger' = HandleDebugResp(Head(rx), in_debugger)
            /\ rx' = Tail(rx)
            /\ rxre' = PopRe(rxre)
       ELSE UNCHANGED <<in_debugger, rx, rxre>>
    /\ UNCHANGED <<last_cmd, cur, path, hpc, tx, core_up, sent, typed, hflip, seen>>
    /\ UNCHANGED <<script, eof, core_halted, pure, fires_left>>

\* One turn of drain_rx's loop: try_recv, then handle_debug_resp or break.
\* try_recv fails on an empty channel whether or not the core is gone.
DrainRx(at, after) ==
    /\ pc = at
    /\ IF rx # <<>>
       THEN /\ in_debugger' = HandleDebugResp(Head(rx), in_debugger)
            /\ rx' = Tail(rx)
            /\ rxre' = PopRe(rxre)
            /\ pc' = pc
       ELSE /\ pc' = after
            /\ UNCHANGED <<in_debugger, rx, rxre>>
    /\ UNCHANGED <<last_cmd, cur, path, hpc, tx, core_up, sent, typed, hflip, seen>>
    /\ UNCHANGED <<script, eof, core_halted, pure, fires_left>>

\* drain_rx at line 274, before the prompt.
DrainBeforePrompt == DrainRx("drain_in", "readline")

\* DrainPassive without its drain_rx: the loop only sleeps while Running.
DrainPassiveMissing ==
    /\ pc = "drain_out"
    /\ pc' = "sleep"
    /\ UNCHANGED <<in_debugger, last_cmd, cur, path, hpc, tx, rx, core_up,
                   sent, typed, hflip, seen>>
    /\ UNCHANGED <<script, eof, core_halted, rxre, pure, fires_left>>

\* drain_rx at line 308, outside the while loop.
DrainPassive == DrainRx("drain_out", "sleep")

\* thread::sleep(50 ms), then the outer loop starts over.
Sleep ==
    /\ pc = "sleep"
    /\ pc' = "loop_top"
    /\ UNCHANGED <<in_debugger, last_cmd, cur, path, hpc, tx, rx, core_up,
                   sent, typed, hflip, seen>>
    /\ UNCHANGED <<script, eof, core_halted, rxre, pure, fires_left>>

\* handle_cmd is entered with argument l from call site p.
Call(l, p) ==
    /\ pc' = "handle"
    /\ cur' = l
    /\ path' = p
    /\ sent' = NoCmd

\* rl.readline returns Ok(line).
ReadLineOk ==
    /\ pc = "readline"
    /\ \E line \in script :
         IF line # EmptyLine
         THEN Call(line, "typed") /\ UNCHANGED typed
         ELSE IF last_cmd.some
              THEN Call(last_cmd.line, "repeat") /\ UNCHANGED typed
              ELSE /\ pc' = "loop_top"
                   /\ UNCHANGED <<cur, path, sent, typed>>
    /\ UNCHANGED <<in_debugger, last_cmd, hpc, tx, rx, core_up, hflip, seen>>
    /\ UNCHANGED <<script, eof, core_halted, rxre, pure, fires_left>>

\* rl.readline returns Err(Interrupted) or another error: break.
ReadLineInterrupted ==
    /\ pc = "readline"
    /\ pc' = "drain_out"
    /\ UNCHANGED <<in_debugger, last_cmd, cur, path, hpc, tx, rx, core_up,
                   sent, typed, hflip, seen>>
    /\ UNCHANGED <<script, eof, core_halted, rxre, pure, fires_left>>

\* rl.readline returns Err(Eof): handle_cmd("continue"), then break.
ReadLineEof ==
    /\ pc = "readline"
    /\ Call(kw_continue, "eof")
    /\ typed' = NoTyped
    /\ eof' = TRUE
    /\ UNCHANGED <<in_debugger, last_cmd, hpc, tx, rx, core_up, hflip, seen>>
    /\ UNCHANGED <<script, core_halted, rxre, pure, fires_left>>

\* Where the Session Loop goes when handle_cmd returns to call site p.
AfterCall(p) ==
    IF p = "typed" THEN "post"
    ELSE IF p = "repeat" THEN "loop_top"
    ELSE "drain_out"

\* handle_cmd returns.  The line typed at the prompt lives on in start() until
\* line 283; the arguments of the other two calls are dropped.
Return ==
    /\ pc' = AfterCall(path)
    /\ IF path = "typed" THEN UNCHANGED <<cur, path, sent>>
       ELSE cur' = <<>> /\ path' = "none" /\ sent' = NoCmd

\* tx.send(c).unwrap() by the Session Loop, followed by wait_response = true.
LoopSend(c) ==
    IF core_up
    THEN /\ Len(tx) < MaxTx
         /\ tx' = Append(tx, Msg(c, "loop"))
         /\ sent' = c
         /\ pc' = "recv"
    ELSE /\ pc' = "aborted"
         /\ UNCHANGED <<tx, sent>>

\* handle_cmd up to its first access to shared state.
HandleCmd ==
    /\ pc = "handle"
    /\ LET o == HandleCmdOf(cur) IN
         \/ /\ o.act = "none"
            /\ Return
            /\ UNCHANGED <<in_debugger, tx>>
         \/ /\ o.act = "exit"
            /\ pc' = "exited"
            /\ UNCHANGED <<in_debugger, tx, sent, cur, path>>
         \/ /\ o.act = "continue"
            /\ in_debugger' = FALSE
            /\ pc' = "cont_send"
            /\ UNCHANGED <<tx, sent, cur, path>>
         \/ /\ o.act = "send"
            /\ LoopSend(o.cmd)
            /\ UNCHANGED <<in_debugger, cur, path>>
         \/ /\ o.act = "send"
            /\ o.ovf
            /\ pc' = "aborted"
            /\ UNCHANGED <<in_debugger, tx, sent, cur, path>>
    /\ UNCHANGED <<last_cmd, hpc, rx, core_up, typed, hflip, seen>>
    /\ UNCHANGED <<script, eof, core_halted, rxre, pure, fires_left>>

\* Line 131: tx.send(DebugCmd::Continue).unwrap(), after the store of line 130.
ContinueSend ==
    /\ pc = "cont_send"
    /\ LoopSend([op |-> "Continue"])
    /\ UNCHANGED <<in_debugger, last_cmd, cur, path, hpc, rx, core_up,
                   typed, hflip, seen>>
    /\ UNCHANGED <<script, eof, core_halted, rxre, pure, fires_left>>

\* Line 145: handle_debug_resp(&rx.recv().unwrap(), in_debugger).  recv blocks
\* while the channel is empty and fails once it is empty and the core is gone.
WaitResponse ==
    /\ pc = "recv"
    /\ IF rx # <<>>
       THEN /\ in_debugger' = HandleDebugResp(Head(rx), in_debugger)
            /\ rx' = Tail(rx)
            /\ rxre' = PopRe(rxre)
            /\ Return
       ELSE /\ ~core_up
            /\ pc' = "aborted"
            /\ UNCHANGED <<in_debugger, rx, rxre, cur, path, sent>>
    /\ UNCHANGED <<last_cmd, hpc, tx, core_up, typed, hflip, seen>>
    /\ UNCHANGED <<script, eof, core_halted, pure, fires_left>>

\* NextLastCmd that keeps an already stored line instead of the newest one.
NextLastCmdKeepsFirst(line) ==
    IF in_debugger
    THEN IF last_cmd.some THEN last_cmd ELSE SomeLine(line)
    ELSE NoneLine

\* Lines 282-286: the value last_cmd takes after a typed line was handled.
NextLastCmd(line) == IF in_debugger THEN SomeLine(line) ELSE NoneLine

RememberLine ==
    /\ pc = "post"
    /\ last_cmd' = NextLastCmd(cur)
    /\ typed' = [some |-> in_debugger, cmd |-> sent]
    /\ pc' = "loop_top"
    /\ cur' = <<>>
    /\ path' = "none"
    /\ sent' = NoCmd
    /\ UNCHANGED <<in_debugger, hpc, tx, rx, core_up, hflip, seen>>
    /\ UNCHANGED <<script, eof, core_halted, rxre, pure, fires_left>>

\* ------------------------------------------------------------------------
\* The Ctrl-C handler closure, lines 263-268 (its own thread)
\* ------------------------------------------------------------------------

\* The signal arrives; line 264: in_debugger_.store(true).
HandlerStore ==
    /\ pc # "exited"
    /\ hpc = "idle"
    /\ hflip' = (~in_debugger /\ pc \in {"loop_top", "drain_out", "sleep"})
    /\ seen' = FALSE
    /\ in_debugger' = TRUE
    /\ hpc' = "stored"
    /\ fires_left # 0
    /\ fires_left' = IF fires_left = AnyNumber THEN AnyNumber ELSE fires_left - 1
    /\ UNCHANGED <<last_cmd, pc, cur, path, tx, rx, core_up, sent, typed>>
    /\ UNCHANGED <<script, eof, core_halted, rxre, pure>>

\* tx_from_ctrlc.send(c).unwrap(): a failed send panics the handler thread.
HandlerSend(at, c, after) ==
    /\ pc # "exited"
    /\ hpc = at
    /\ IF core_up
       THEN /\ Len(tx) < MaxTx
            /\ tx' = Append(tx, Msg(c, "intr"))
            /\ hpc' = after
       ELSE /\ hpc' = "dead"
            /\ UNCHANGED tx
    /\ IF hpc' = "idle"
       THEN hflip' = FALSE /\ seen' = FALSE
       ELSE UNCHANGED <<hflip, seen>>
    /\ UNCHANGED <<in_debugger, last_cmd, pc, cur, path, rx, core_up, sent, typed>>
    /\ UNCHANGED <<script, eof, core_halted, rxre, pure, fires_left>>

\* Line 266.
HandlerPause == HandlerSend("stored", [op |-> "Pause"], "pause_sent")

\* Line 267.
HandlerGetState == HandlerSend("pause_sent", [op |-> "GetState"], "idle")

\* ------------------------------------------------------------------------
\* The Emulator Core (environment)
\* ------------------------------------------------------------------------

\* The responses the core answers a command with.
ReplyKinds == {"Pong", "State", "HitBreakpoint"}

\* The core takes the oldest command and answers it once.
CoreProcess ==
    /\ pc # "exited"
    /\ core_up
    /\ tx # <<>>
    /\ Len(rx) < MaxRx
    /\ \E r \in ReplyKinds : rx' = Append(rx, r)
    /\ tx' = Tail(tx)
    /\ UNCHANGED <<in_debugger, last_cmd, pc, cur, path, hpc, core_up,
                   sent, typed, hflip, seen>>
    /\ UNCHANGED <<script, eof, core_halted, rxre, pure, fires_left>>

\* The running program reaches a breakpoint: an unsolicited response.
CoreNotify ==
    /\ pc # "exited"
    /\ core_up
    /\ Len(rx) < MaxRx
    /\ rx' = Append(rx, "HitBreakpoint")
    /\ UNCHANGED <<in_debugger, last_cmd, pc, cur, path, hpc, tx, core_up,
                   sent, typed, hflip, seen>>
    /\ UNCHANGED <<script, eof, core_halted, rxre, pure, fires_left>>

\* The core drops both of its channel ends; unreceived commands are lost,
\* responses already sent can still be received.
CoreGone ==
    /\ pc # "exited"
    /\ core_up
    /\ core_up' = FALSE
    /\ tx' = <<>>
    /\ UNCHANGED <<in_debugger, last_cmd, pc, cur, path, hpc, rx,
                   sent, typed, hflip, seen>>
    /\ UNCHANGED <<script, eof, core_halted, rxre, pure, fires_left>>

\* ------------------------------------------------------------------------
\* The system
\* ------------------------------------------------------------------------

Next ==
    \/ LoopTop
    \/ DrainBeforePrompt
    \/ DrainPassive
    \/ Sleep
    \/ ReadLineOk
    \/ ReadLineInterrupted
    \/ ReadLineEof
    \/ HandleCmd
    \/ ContinueSend
    \/ WaitResponse
    \/ RememberLine
    \/ HandlerStore
    \/ HandlerPause
    \/ HandlerGetState
    \/ CoreProcess
    \/ CoreNotify
    \/ CoreGone

Spec == Init /\ [][Next]_vars

TypeOK ==
    /\ in_debugger \in BOOLEAN
    /\ pc \in {"loop_top", "drain_in", "readline", "handle", "cont_send", "recv",
               "post", "drain_out", "sleep", "exited", "aborted"}
    /\ hpc \in {"idle", "stored", "pause_sent", "dead"}
    /\ Len(tx) <= MaxTx
    /\ Len(rx) <= MaxRx
    /\ \A i \in 1..Len(rx) : rx[i] \in RespKinds

\* ------------------------------------------------------------------------
\* Properties
\* ------------------------------------------------------------------------

Continue == [op |-> "Continue"]

\* The Session Loop thread takes a step.
LoopStep == pc' # pc \/ (pc \in {"drain_in", "drain_out"} /\ rx' # rx)

\* A thread puts a command on the outbound channel in this step.
Sends(who) ==
    /\ Len(tx') = Len(tx) + 1
    /\ tx'[Len(tx')].src = who

\* The handler is between its store and the end of its second send.
InWindow == hpc \in {"stored", "pause_sent"}

\* C1: whenever the Session Loop is blocked in readline, in_debugger is true.
C1_PromptOnlyWhilePaused == pc = "readline" => in_debugger

\* The prompt is up while a handler firing is in progress and a response waits.
C1_Witness == pc = "readline" /\ InWindow /\ rx # <<>> /\ typed.some

\* C2: each firing of the handler sends exactly one Pause and then exactly one
\* GetState, and in_debugger is true at the moment each of them is put on the
\* channel (the transport being intact).
C2_InterruptOrdering ==
    [][ /\ (hpc = "stored" /\ hpc' = "pause_sent") =>
              (tx' = Append(tx, Msg([op |-> "Pause"], "intr")) /\ in_debugger')
        /\ (hpc = "pause_sent" /\ hpc' = "idle") =>
              (tx' = Append(tx, Msg([op |-> "GetState"], "intr")) /\ in_debugger')
        /\ (hpc = "stored" => hpc' \in {"stored", "pause_sent", "dead"})
        /\ (hpc = "idle" => hpc' \in {"idle", "stored"})
      ]_vars

\* C3: once the Session Loop has observed the PauseState change made by an
\* interrupt that found the console Running, it puts no command on the
\* channel before that interrupt's Pause and GetState are both on it.
C3_NoReorderingInPauseCycle ==
    [][ Sends("loop") => ~(seen /\ InWindow) ]_vars

\* C4 as stated: no blocking receive follows Continue, and none happens while
\* PauseState is false.
C4_OptimisticContinue ==
    pc = "recv" => (in_debugger /\ HandleCmdOf(cur).act # "continue")

\* C4 amended: while PauseState is false the Session Loop is never at the
\* prompt nor entering a command, and the only blocking receive it performs
\* is the one that follows the Continue it has just sent.
C4_ContinueWaitsOnce ==
    /\ (pc = "recv" /\ ~in_debugger) =>
           (HandleCmdOf(cur).act = "continue" /\ sent = Continue)
    /\ (pc = "cont_send") => HandleCmdOf(cur).act = "continue"
    /\ ~in_debugger => pc \notin {"drain_in", "readline", "handle"}

\* Continue has been sent, PauseState is false and the loop waits in recv.
C4_Witness ==
    /\ pc = "recv"
    /\ ~in_debugger
    /\ sent = Continue
    /\ path = "typed"
    /\ \E i \in 1..Len(tx) : tx[i] = Msg(Continue, "loop")

\* C5: in_debugger goes from true to false only in a handle_cmd call that has
\* already sent Continue.
C5_FalseOnlyAfterContinueSent ==
    [][ (in_debugger /\ ~in_debugger') => sent = Continue ]_vars

\* C6: after a typed line was handled with PauseState true afterwards, the
\* call made for an empty line sends exactly the command that line sent (none
\* if it sent none) and waits for a response exactly when it sent one; an
\* empty line with no stored last command starts no call and sends nothing.
C6_RepeatLastCommand ==
    [][ /\ (path = "repeat" /\ pc \in {"handle", "recv"} /\ pc' = "loop_top"
            /\ typed.some) =>
              (sent = typed.cmd /\ ((pc = "recv") <=> (typed.cmd # NoCmd)))
        /\ (pc = "readline" /\ ~last_cmd.some /\ LoopStep) =>
              (~(pc' = "handle" /\ path' = "repeat") /\ ~Sends("loop"))
      ]_vars

\* An empty line has re-sent the GetMemory command of the line typed before.
C6_Witness ==
    /\ path = "repeat"
    /\ pc = "recv"
    /\ typed.some
    /\ sent = typed.cmd
    /\ sent.op = "GetMemory"

\* C7: when the last line typed at the prompt was continue, an empty line
\* starts no handle_cmd call.
C7_EmptyLineAfterContinue ==
    [][ (pc = "readline" /\ typed.cmd = Continue) =>
            ~(pc' = "handle" /\ path' = "repeat") ]_vars

\* C8: when handle_cmd has been handled on any path (typed line, repeat,
\* end of input) and PauseState is false, last_cmd is None.
C8_ClearedWhenRunning ==
    [][ (pc \in {"handle", "recv", "post"} /\ pc' \in {"loop_top", "drain_out"}) =>
            (~in_debugger' => ~last_cmd'.some) ]_vars

\* C9: the Session Loop never has more than one command of its own on the
\* way to the core.
C9_OneOutstanding ==
    Cardinality({i \in 1..Len(tx) : tx[i].src = "loop"}) <= 1

\* The words the grammar knows as a first word.
GrammarKeywords ==
    {kw_help, kw_info, kw_delete, kw_break, kw_exit, kw_n, kw_next, kw_s,
     kw_step, kw_registers, kw_mem, kw_memory, kw_dot, kw_state, kw_dis16,
     kw_dis24, kw_dis, kw_disassemble, kw_c, kw_continue}

IsNumber(w) == ParseNumber(w).ok

\* The lines C10 calls rejected: unknown keyword; info without breakpoints;
\* break, delete, mem with an absent or non-numeric address; mem with a
\* non-numeric len; a disassemble command with a non-numeric start or end.
RejectedWords(w) ==
    /\ w # <<>>
    /\ \/ w[1] \notin GrammarKeywords
       \/ w[1] = kw_info /\ WordOr(w, 2) # kw_breakpoints
       \/ w[1] \in {kw_break, kw_delete, kw_mem, kw_memory} /\ ~IsNumber(WordOr(w, 2))
       \/ w[1] \in {kw_mem, kw_memory} /\ Len(w) >= 3 /\ ~IsNumber(w[3])
       \/ /\ w[1] \in {kw_dis16, kw_dis24, kw_dis, kw_disassemble}
          /\ \/ Len(w) >= 2 /\ ~IsNumber(w[2])
             \/ Len(w) >= 3 /\ ~IsNumber(w[3])

\* C10: handling a rejected line sends nothing, waits for no response, leaves
\* PauseState as it is and returns to the caller.
C10_RejectionIsLocal ==
    [][ (pc = "handle" /\ pc' # "handle" /\ RejectedWords(SplitWhitespace(cur))) =>
            /\ tx' = tx
            /\ in_debugger' = in_debugger
            /\ pc' = AfterCall(path) ]_vars

\* C11: when readline returns end of input, the call made for it sends one
\* Continue and nothing else, the process does not exit in that call, and
\* from then on the Session Loop never enters readline again, whatever
\* PauseState later becomes.
C11_EofEndsReading ==
    [][ /\ (path = "eof" /\ Sends("loop")) =>
              (tx' = Append(tx, Msg(Continue, "loop")) /\ sent = NoCmd)
        /\ (path = "eof" => pc' # "exited")
        /\ (eof => pc' # "readline")
      ]_vars

\* The Session Loop completes a send or a receive on the transport.
LoopAttempt ==
    /\ pc' # pc
    /\ \/ pc \in {"drain_in", "drain_out", "recv", "cont_send"}
       \/ pc = "handle" /\ HandleCmdOf(cur).act = "send"

\* C12: once the core's end of the transport is gone and nothing is left to
\* receive, the next send or receive attempted by the Session Loop or by the
\* interrupt handler aborts the console.
C12_TransportFailureFatal ==
    [][ (~core_up /\ rx = <<>>) =>
            /\ (LoopAttempt => pc' = "aborted")
            /\ ((InWindow /\ hpc' # hpc) => pc' = "aborted")
      ]_vars

\* ------------------------------------------------------------------------
\* The parsers as pure functions: one call per behaviour
\* ------------------------------------------------------------------------

\* Most tokens that follow the first token of a line.
MaxTrail == 2

\* Addresses 0 .. MaxSmallAddr are all tried, next to the boundary ones.
MaxSmallAddr == 40

\* First tokens outside the grammar.
UnknownFirst ==
    { <<"z", "z">>, <<"H", "e", "l", "p">>, <<"s", "t", "e", "p", "p">>,
      <<"&", "1", "0">>, <<"1", "6">>, <<"b", "r", "k">>, <<"?">>,
      <<"c", "o", "n", "t">> }

\* Tokens that follow: keywords, numbers in every notation, and others.
TrailWords ==
    { kw_breakpoints, kw_s, kw_c, kw_exit,
      <<"&", "1", "0", "0", "0">>,
      <<"&", "f", "f", "f", "f", "f", "f", "d", "f">>,
      <<"&", "f", "f", "f", "f", "f", "f", "e", "0">>,
      <<"$", "f", "f", "f", "f", "f", "f", "f", "f">>,
      <<"2", "0", "h">>, <<"1", "6">>, <<"z", "z">> }

RECURSIVE TrailsUpTo(_)
TrailsUpTo(n) ==
    IF n = 0 THEN { <<>> }
    ELSE LET shorter == TrailsUpTo(n - 1)
         IN  shorter \cup { Append(t, w) : t \in shorter, w \in TrailWords }

\* The token lists handed to parse_cmd and to handle_cmd's match.
WordLists ==
    { <<f>> \o t : f \in GrammarKeywords \cup UnknownFirst,
                   t \in TrailsUpTo(MaxTrail) }

\* The addresses tried, all within [0, 0xFFFFFF].
Addresses ==
    (0 .. MaxSmallAddr) \cup
    { 255, 256, 4095, 4096, 43981, 65535, 65536, 1048575, 1048576,
      11259375, 16777214, 16777215 }

\* Decimal tokens that are not the rendering of an address tried above, with
\* the u32 each one denotes (none when it is above u32::MAX).
DecimalTokens ==
    { [tok |-> <<"0", "0", "7">>, fits |-> TRUE, val |-> U32(0, 7)],
      [tok |-> <<"0", "0", "0", "0", "0", "0", "0", "0", "0", "0", "1", "2">>,
       fits |-> TRUE, val |-> U32(0, 12)],
      [tok |-> <<"4", "2", "9", "4", "9", "6", "7", "2", "9", "5">>,
       fits |-> TRUE, val |-> U32(65535, 65535)],
      [tok |-> <<"4", "2", "9", "4", "9", "6", "7", "2", "9", "6">>,
       fits |-> FALSE, val |-> Zero32],
      [tok |-> <<"9", "9", "9", "9", "9", "9", "9", "9", "9", "9", "9">>,
       fits |-> FALSE, val |-> Zero32] }

\* The tokens handed to parse_number.
NumberTokens ==
    { <<"&">> \o FormatHex(a) : a \in Addresses } \cup
    { <<"$">> \o FormatHex(a) : a \in Addresses } \cup
    { Append(FormatHex(a), "h") : a \in Addresses } \cup
    { Append(FormatHex(a), "H") : a \in Addresses } \cup
    { FormatDec(a) : a \in Addresses } \cup
    { d.tok : d \in DecimalTokens } \cup
    { <<>>, <<"&">>, <<"h">>, <<"1", "2", "a">>, <<"-", "1">>, <<"+", "5">> }

\* A call not yet made.
CmdCall(f, w) == [fn |-> f, arg |-> w, done |-> FALSE, res |-> NoSend]

NumCall(f, t) == [fn |-> f, arg |-> t, done |-> FALSE, res |-> ParseErr]

PureCalls ==
    { CmdCall(f, w) : f \in {"parse_cmd", "handle_cmd"}, w \in WordLists } \cup
    { NumCall(f, t) : f \in {"parse_number", "parser_parse_number"},
                      t \in NumberTokens }

\* start + 0x20 above u32::MAX: a build with overflow checks panics, a build
\* without them goes on with the wrapped sum.
DispatchAbort == [act |-> "abort", cmd |-> NoCmd, ovf |-> TRUE]

DispatchOutcomes(o) == IF o.ovf THEN {o, DispatchAbort} ELSE {o}

ParseCmdPanic == [kind |-> "Panic", cmd |-> NoCmd, ovf |-> TRUE]

ParseCmdOutcomes(o) == IF o.ovf THEN {o, ParseCmdPanic} ELSE {o}

console == <<in_debugger, last_cmd, pc, cur, path, hpc, tx, rx, core_up,
             sent, typed, hflip, seen, script, eof, core_halted, rxre,
             fires_left>>

Returns(r) == pure' = [pure EXCEPT !.done = TRUE, !.res = r]

\* parse_cmd(tokens)
ApplyParseCmd ==
    /\ pure.fn = "parse_cmd"
    /\ ~pure.done
    /\ \E r \in ParseCmdOutcomes(ParseCmd(pure.arg)) : Returns(r)
    /\ UNCHANGED console

\* handle_cmd's match on the words of the line, up to the send.
ApplyHandleCmd ==
    /\ pure.fn = "handle_cmd"
    /\ ~pure.done
    /\ \E r \in DispatchOutcomes(HandleCmdDispatch(pure.arg)) : Returns(r)
    /\ UNCHANGED console

\* lib.rs's parse_number(s)
ApplyParseNumber ==
    /\ pure.fn = "parse_number"
    /\ ~pure.done
    /\ Returns(ParseNumber(pure.arg))
    /\ UNCHANGED console

\* parser.rs's parse_number(s)
ApplyParserParseNumber ==
    /\ pure.fn = "parser_parse_number"
    /\ ~pure.done
    /\ Returns(ParserParseNumber(pure.arg))
    /\ UNCHANGED console

InitPure ==
    /\ InitConsole
    /\ script = {}
    /\ pure \in PureCalls
    /\ fires_left = 0

NextPure ==
    \/ ApplyParseCmd
    \/ ApplyHandleCmd
    \/ ApplyParseNumber
    \/ ApplyParserParseNumber

SpecPure == InitPure /\ [][NextPure]_vars

\* A finished call of parse_cmd or of handle_cmd's match.
CmdCallDone == pure.fn \in {"parse_cmd", "handle_cmd"} /\ pure.done

DisFamily == {kw_dis16, kw_dis24, kw_dis, kw_disassemble}

\* C13: a disassemble-family line whose start the number parser accepts
\* yields Disassemble{adl, start, end}, where end is exactly start + 0x20
\* when no end is given and the given end when one is given and is a number;
\* no sum overflows and the call does not abort.
C13_DefaultEnd ==
    LET w     == pure.arg
        start == ParseNumber(WordOr(w, 2))
        end   == ParseNumber(WordOr(w, 3))
    IN  (/\ CmdCallDone
         /\ w[1] \in DisFamily
         /\ start.ok
         /\ (Len(w) = 2 \/ end.ok)) =>
            pure.res.cmd = [op |-> "Disassemble", adl |-> AdlOf(w[1]),
                            start |-> start.val,
                            end |-> IF Len(w) = 2 THEN Plus0x20(start.val)
                                    ELSE end.val]

\* C14: a call whose first token is not a keyword of the grammar is rejected,
\* whatever tokens follow it: parse_cmd returns None and handle_cmd's match
\* sends nothing (and neither exits nor continues).
C14_UnknownCommandRejected ==
    (CmdCallDone /\ pure.arg[1] \notin GrammarKeywords) =>
        /\ (pure.fn = "parse_cmd" => pure.res = CmdNone)
        /\ (pure.fn = "handle_cmd" => pure.res = NoSend)

\* An unknown first token followed by a keyword and by a number was handled.
C14_Witness ==
    /\ CmdCallDone
    /\ pure.fn = "handle_cmd"
    /\ Len(pure.arg) = 3
    /\ pure.arg[1] \in UnknownFirst
    /\ pure.arg[2] = kw_s
    /\ ParseNumber(pure.arg[3]).ok

\* A finished call of either parse_number.
NumCallDone == pure.fn \in {"parse_number", "parser_parse_number"} /\ pure.done

\* The token has at least one character and all of them are decimal digits.
AllDecimal(tok) ==
    /\ tok # <<>>
    /\ \A i \in 1..Len(tok) : DigitVal(tok[i]) < 10

\* For every address a tried, the token made of `&` or `$` and a's lowercase
\* hexadecimal rendering, or of that rendering and `h` or `H`, parses to a.
HexRoundTrip ==
    \A a \in Addresses :
        (pure.arg \in { <<"&">> \o FormatHex(a), <<"$">> \o FormatHex(a),
                        Append(FormatHex(a), "h"), Append(FormatHex(a), "H") })
            => pure.res = ParseOk(ToU32(a))

\* C15 as stated: the hexadecimal round trip, and every token of decimal digits
\* only parses, to its decimal value.
C15_NumericRoundTrip ==
    NumCallDone =>
        /\ HexRoundTrip
        /\ (AllDecimal(pure.arg) => pure.res.ok)
        /\ \A a \in Addresses :
               pure.arg = FormatDec(a) => pure.res = ParseOk(ToU32(a))
        /\ \A d \in DecimalTokens :
               (pure.arg = d.tok /\ d.fits) => pure.res = ParseOk(d.val)

\* C15 amended: the hexadecimal round trip; a token of decimal digits only
\* parses to its decimal value when that value is at most u32::MAX, and is
\* refused with a parse error when it is larger.
C15_RoundTripWithinU32 ==
    NumCallDone =>
        /\ HexRoundTrip
        /\ \A a \in Addresses :
               pure.arg = FormatDec(a) => pure.res = ParseOk(ToU32(a))
        /\ \A d \in DecimalTokens :
               pure.arg = d.tok =>
                   pure.res = IF d.fits THEN ParseOk(d.val) ELSE ParseErr

\* 0xFFFFFF was parsed back from its rendering with the `h` suffix.
C15_Witness ==
    /\ NumCallDone
    /\ pure.arg = Append(FormatHex(16777215), "h")
    /\ pure.res = ParseOk(U32(255, 65535))

\* ------------------------------------------------------------------------
\* The orderly Emulator Core: commands taken in arrival order, one reply
\* each; halted by Pause or by a breakpoint, running again after Continue
\* ------------------------------------------------------------------------

\* Most interrupts the operator raises in a run with the orderly core.
MaxFires == 2

\* The lines typed in a run with the orderly core.
CoreLines == { Join(<<kw_s>>), Join(<<kw_c>>) }

\* The response that answers a command: the data asked for, else Pong.
ReplyKindOf(c) ==
    CASE c.op = "GetMemory" -> "Memory"
      [] c.op = "GetRegisters" -> "Registers"
      [] c.op = "GetState" -> "State"
      [] c.op = "ListBreaks" -> "Breakpoints"
      [] c.op \in {"Disassemble", "DisassemblePc"} -> "Disassembly"
      [] OTHER -> "Pong"

\* Whether the CPU is halted once the core has processed command c.
HaltedAfter(c, halted) ==
    IF c.op = "Pause" THEN TRUE
    ELSE IF c.op = "Continue" THEN FALSE
    ELSE halted

\* The origin of a response that answers no command.
Unsolicited == Msg(NoCmd, "core")

\* The core takes the oldest command, acts on it and answers it once.
OrderlyProcess ==
    /\ pc # "exited"
    /\ core_up
    /\ tx # <<>>
    /\ Len(rx) < MaxRx
    /\ rx' = Append(rx, ReplyKindOf(Head(tx).cmd))
    /\ rxre' = Append(rxre, Head(tx))
    /\ core_halted' = HaltedAfter(Head(tx).cmd, core_halted)
    /\ tx' = Tail(tx)
    /\ UNCHANGED <<in_debugger, last_cmd, pc, cur, path, hpc, core_up,
                   sent, typed, hflip, seen>>
    /\ UNCHANGED <<script, eof, pure, fires_left>>

\* The running program reaches a breakpoint: the CPU halts and the core
\* reports it.
OrderlyHit ==
    /\ pc # "exited"
    /\ core_up
    /\ ~core_halted
    /\ Len(rx) < MaxRx
    /\ rx' = Append(rx, "HitBreakpoint")
    /\ rxre' = Append(rxre, Unsolicited)
    /\ core_halted' = TRUE
    /\ UNCHANGED <<in_debugger, last_cmd, pc, cur, path, hpc, tx, core_up,
                   sent, typed, hflip, seen>>
    /\ UNCHANGED <<script, eof, pure, fires_left>>

InitCore ==
    /\ InitConsole
    /\ script = CoreLines
    /\ pure = NoCall
    /\ fires_left = MaxFires

\* The steps of the Session Loop thread that wait for nobody but the loop.
SessionLoop ==
    \/ LoopTop
    \/ DrainBeforePrompt
    \/ DrainPassive
    \/ Sleep
    \/ HandleCmd
    \/ ContinueSend
    \/ WaitResponse
    \/ RememberLine

NextCore ==
    \/ SessionLoop
    \/ ReadLineOk
    \/ ReadLineInterrupted
    \/ ReadLineEof
    \/ HandlerStore
    \/ HandlerPause
    \/ HandlerGetState
    \/ OrderlyProcess
    \/ OrderlyHit

SpecCore == InitCore /\ [][NextCore]_vars

\* C16: with the orderly core, the response taken by the blocking receive
\* that follows the sending of command C is the core's answer to C: not the
\* answer to a Pause or GetState of the interrupt handler, not an unsolicited
\* notification.
C16_CorrespondingResponse ==
    [][ (pc = "recv" /\ pc' # "recv" /\ rx # <<>>) =>
            Head(rxre) = Msg(sent, "loop") ]_vars

\* Nothing is in flight, no handler is at work, and the Session Loop is at
\* the prompt or in the passive drain loop.
Quiescent ==
    /\ tx = <<>>
    /\ rx = <<>>
    /\ hpc = "idle"
    /\ pc \in {"readline", "loop_top", "drain_out", "sleep"}

\* C17: with the orderly core, PauseState equals the core's halted status in
\* every quiescent state.
C17_PauseBeliefConsistent == Quiescent => (in_debugger = core_halted)

\* The Session Loop thread keeps taking its steps, and the orderly core
\* answers every command.
LiveLines == { Join(<<kw_c>>) }

InitLive ==
    /\ InitConsole
    /\ script = LiveLines
    /\ pure = NoCall
    /\ fires_left = MaxFires

SpecCoreFair ==
    /\ InitLive
    /\ [][NextCore]_vars
    /\ WF_vars(SessionLoop)
    /\ WF_vars(OrderlyProcess)

\* PauseState is false and the Session Loop polls, or still waits for the
\* response that follows its Continue.
RunningLoop == ~in_debugger /\ pc \in {"loop_top", "drain_out", "sleep", "recv"}

\* A HitBreakpoint waits in the inbound channel.
HaltNotified == \E i \in 1..Len(rx) : rx[i] = "HitBreakpoint"

\* The handler has stored true, having found the console Running, and the
\* Session Loop, still polling, has not acted on the store yet.
InterruptFired ==
    /\ hflip
    /\ hpc = "stored"
    /\ in_debugger
    /\ pc \in {"loop_top", "drain_out", "sleep"}

Received ==
    /\ rx # <<>>
    /\ rx' = Tail(rx)

Delivered == \E r \in RespKinds : rx' = Append(rx, r)

FormatLines ==
    { Join(<<kw_mem, <<"&", "1", "0">> >>),
      Join(<<kw_registers>>),
      Join(<<kw_dis>>),
      Join(<<kw_info, kw_breakpoints>>),
      Join(<<kw_c>>) }

InitFormat ==
    /\ InitConsole
    /\ script = FormatLines
    /\ pure = NoCall
    /\ fires_left = MaxFires

NextFormat ==
    \/ SessionLoop
    \/ ReadLineOk
    \/ HandlerStore
    \/ HandlerPause
    \/ HandlerGetState
    \/ OrderlyProcess
    \/ OrderlyHit

SpecFormat == InitFormat /\ [][NextFormat]_vars

\* C20: when a response is received and handled, PauseState changes only if
\* the response is HitBreakpoint, and then it becomes true; Memory,
\* Registers, State, Disassembly, Breakpoints and Pong leave it as it is;
\* last_cmd is not modified and nothing is put on the outbound channel.
C20_FormatterFrame ==
    [][ Received =>
          /\ (in_debugger' # in_debugger =>
                 (Head(rx) = "HitBreakpoint" /\ in_debugger'))
          /\ (Head(rx) = "HitBreakpoint" => in_debugger')
          /\ (Head(rx) \in RespKinds \ {"HitBreakpoint"} =>
                 in_debugger' = in_debugger)
          /\ last_cmd' = last_cmd
          /\ tx' = tx
      ]_vars

\* A Memory response was handled while Paused, after an earlier line was
\* remembered: PauseState and last_cmd are as they were.
C20_Witness ==
    /\ pc = "post"
    /\ sent.op = "GetMemory"
    /\ in_debugger
    /\ last_cmd = SomeLine(Join(<<kw_dis>>))
    /\ rx = <<>>

====
